---- MODULE Spec2Model ----
(***************************************************************************)
(* SmallGicpRelocalizationNode (src/src/small_gicp_relocalization.cpp).    *)
(*                                                                         *)
(* The node owns one subscription (registeredPcdCallback) and two wall     *)
(* timers (performRegistration, publishTransform).  All three callbacks    *)
(* are created without a callback group, so they live in the node's        *)
(* default (mutually exclusive) callback group.  Every callback is         *)
(* modelled statement by statement; the position of each callback is part  *)
(* of the state.                                                           *)
(***************************************************************************)
EXTENDS Integers, Sequences, FiniteSets, TLC

VARIABLES
  ctor,             \* position of the constructor
  mapLoaded,        \* did pcl::io::loadPCDFile succeed (line 78)
  global_map_,      \* points of the reference map (voxel cells)
  target_,          \* [built, npts, cov]
  target_tree_,     \* 0 = null, 1 = KdTree over target_
  pcd_sub_,         \* subscription exists
  register_timer_,  \* timer exists
  transform_timer_, \* timer exists
  queue,            \* scans received by the subscription, not yet handled
  nextStamp,        \* stamp of the next scan the sensor sends
  last_scan_time_,  \* stamp of header of the last scan (0 = default Time)
  registered_scan_, \* points of the scan converted by fromROSMsg
  heap,             \* source clouds ever allocated: id -> [stamp, npts, cov]
  source_,          \* shared_ptr to a source cloud (0 = null)
  source_tree_,     \* shared_ptr to a KdTree; the id of the cloud it holds
  result_T_,        \* 4x4 matrix
  pcI, msg,         \* registeredPcdCallback: position, argument
  pcA, solverIn,    \* performRegistration: position, arguments of align
  result,           \* performRegistration: what align last returned
  pcP, ts,          \* publishTransform: position, locals
  sent, numSent,    \* last message handed to the broadcaster, and how many
  logged,           \* log line written by the last step ("none" if none)
  outcome,          \* how the last performRegistration call ended
  published,        \* how the last publishTransform call ended
  solverInvoked,    \* history: align was called at least once
  everConverged,    \* history: some align returned converged
  everFailed,       \* history: some align returned not converged
  convPose,         \* history: pose of the last converged align
  convFrom,         \* history: stamp of the scan aligned by that align
  sentPose,         \* history: convPose when the last message was sent
  sentFrom,         \* history: convFrom when the last message was sent
  convSinceSend     \* history: a converged align returned since the last send

vars == <<ctor, mapLoaded, global_map_, target_, target_tree_, pcd_sub_,
          register_timer_, transform_timer_, queue, nextStamp,
          last_scan_time_, registered_scan_, heap, source_, source_tree_,
          result_T_, pcI, msg, pcA, solverIn, pcP, ts, sent, numSent, logged,
          outcome, result, published, solverInvoked, everConverged,
          everFailed, convPose, convFrom,
          sentPose, sentFrom, convSinceSend>>

----------------------------------------------------------------------------
(* Bounds of the model *)

MaxScans == 3       \* scans the sensor sends
MaxSent  == 3       \* messages handed to the broadcaster

(* Program constants *)

QueueDepth == 10    \* create_subscription(..., 10, ...)

map_frame_id_  == "map"
odom_frame_id_ == "odom"

----------------------------------------------------------------------------
(* Point clouds.  A raw cloud is a sequence of voxel cells, one per point. *)

MapPoints  == <<1, 2, 3>>
ScanShapes == {<< >>, <<1, 1>>}

(* voxelgrid_sampling_omp: one point per occupied cell *)
VoxelGrid(points) == Cardinality({points[i] : i \in 1..Len(points)})

NoMsg == [stamp |-> 0, points |-> << >>]

----------------------------------------------------------------------------
(* Rigid transforms.  A pose is a rotation by 180 degrees about one axis   *)
(* (or none) and an integer translation, so that every matrix entry and    *)
(* every quaternion coefficient is an integer.                             *)

Poses ==
  { [axis |-> "I", t |-> <<0, 0, 0>>],
    [axis |-> "X", t |-> <<1, 0, 0>>],
    [axis |-> "Z", t |-> <<0, 2, 0>>] }

IdentityPose == [axis |-> "I", t |-> <<0, 0, 0>>]

Diag(axis) ==
  CASE axis = "I" -> << 1,  1,  1>>
    [] axis = "X" -> << 1, -1, -1>>
    [] axis = "Y" -> <<-1,  1, -1>>
    [] axis = "Z" -> <<-1, -1,  1>>

(* Eigen::Isometry3d::matrix() : [R t; 0 0 0 1] *)
IsometryMatrix(p) ==
  LET d == Diag(p.axis) IN
  << <<d[1], 0,    0,    p.t[1]>>,
     <<0,    d[2], 0,    p.t[2]>>,
     <<0,    0,    d[3], p.t[3]>>,
     <<0,    0,    0,    1>> >>

ZeroMatrix == << <<0,0,0,0>>, <<0,0,0,0>>, <<0,0,0,0>>, <<0,0,0,0>> >>

(* .cast<float>() : exact for integers below 2^24, rounded to a multiple   *)
(* of the float spacing above                                              *)
FloatMax == 16777216
CastFloat(x) ==
  IF x <= FloatMax /\ -x <= FloatMax THEN x ELSE (x \div 2) * 2

CastMatrix(m) == [r \in 1..4 |-> [c \in 1..4 |-> CastFloat(m[r][c])]]

(* Eigen isZero(): every coefficient is below the precision; on integer    *)
(* coefficients that is every coefficient being 0                          *)
IsZero(m) == \A r \in 1..4 : \A c \in 1..4 : m[r][c] = 0

(* the bottom row instead of the last column: block<1,3>(3,0) *)
TranslationRow(m) == <<m[4][1], m[4][2], m[4][3]>>

(* result_T_.block<3,1>(0,3) *)
TranslationBlock(m) == <<m[1][4], m[2][4], m[3][4]>>

(* result_T_.block<3,3>(0,0) *)
RotationBlock(m) == [r \in 1..3 |-> [c \in 1..3 |-> m[r][c]]]

ISqrt(x) == CHOOSE r \in 0..x : r * r = x

(* Eigen::Quaternionf(Matrix3f): the trace-based conversion.  m is indexed *)
(* from 1; the result is [w, x, y, z].                                     *)
QuaternionOf(m) ==
  LET tr == m[1][1] + m[2][2] + m[3][3] IN
  IF tr > 0
  THEN LET t == ISqrt(tr + 1) IN
       [w |-> t \div 2,
        x |-> (m[3][2] - m[2][3]) \div (2 * t),
        y |-> (m[1][3] - m[3][1]) \div (2 * t),
        z |-> (m[2][1] - m[1][2]) \div (2 * t)]
  ELSE LET i0 == IF m[2][2] > m[1][1] THEN 2 ELSE 1
           i  == IF m[3][3] > m[i0][i0] THEN 3 ELSE i0
           j  == (i % 3) + 1
           k  == (j % 3) + 1
           t  == ISqrt(m[i][i] - m[j][j] - m[k][k] + 1)
           q  == [n \in 1..3 |->
                    IF n = i THEN t \div 2
                    ELSE IF n = j THEN (m[j][i] + m[i][j]) \div (2 * t)
                    ELSE (m[k][i] + m[i][k]) \div (2 * t)]
       IN [w |-> (m[k][j] - m[j][k]) \div (2 * t),
           x |-> q[1], y |-> q[2], z |-> q[3]]

----------------------------------------------------------------------------
(* Values of the members before the constructor body runs.  The members    *)
(* are declared in small_gicp_relocalization.hpp.                          *)

AbsentResult == ZeroMatrix

NoTs == [stamp |-> 0, frame_id |-> "", child_frame_id |-> "",
         translation |-> <<0, 0, 0>>,
         rotation |-> [w |-> 0, x |-> 0, y |-> 0, z |-> 0]]

NoSolverIn == [target |-> [built |-> FALSE, npts |-> 0, cov |-> FALSE],
               source |-> 0, view |-> [stamp |-> 0, npts |-> 0, cov |-> FALSE],
               target_tree |-> 0, init_T |-> ZeroMatrix]

NoResult == [converged |-> FALSE, T_target_source |-> IdentityPose]

Init ==
  /\ ctor = "L47"
  /\ mapLoaded = FALSE
  /\ global_map_ = << >>
  /\ target_ = [built |-> FALSE, npts |-> 0, cov |-> FALSE]
  /\ target_tree_ = 0
  /\ pcd_sub_ = FALSE
  /\ register_timer_ = FALSE
  /\ transform_timer_ = FALSE
  /\ queue = << >>
  /\ nextStamp = 1
  /\ last_scan_time_ = 0
  /\ registered_scan_ = << >>
  /\ heap = << >>
  /\ source_ = 0
  /\ source_tree_ = 0
  /\ result_T_ = AbsentResult
  /\ pcI = "idle" /\ msg = NoMsg
  /\ pcA = "idle" /\ solverIn = NoSolverIn
  /\ pcP = "idle" /\ ts = NoTs
  /\ sent = NoTs /\ numSent = 0
  /\ logged = "none"
  /\ outcome = "none"
  /\ result = NoResult
  /\ published = "none"
  /\ solverInvoked = FALSE
  /\ everConverged = FALSE
  /\ everFailed = FALSE
  /\ convPose = IdentityPose
  /\ convFrom = 0
  /\ sentPose = IdentityPose
  /\ sentFrom = 0
  /\ convSinceSend = FALSE

ctorVars  == <<ctor, mapLoaded, global_map_, target_, target_tree_, pcd_sub_,
               register_timer_, transform_timer_>>
ingVars   == <<last_scan_time_, registered_scan_, heap, source_, source_tree_,
               pcI, msg>>
regVars   == <<result_T_, pcA, solverIn, result, outcome, solverInvoked,
               everFailed,
               everConverged, convPose, convFrom>>
pubVars   == <<pcP, ts, sent, numSent, published, sentPose, sentFrom>>

----------------------------------------------------------------------------
(* Constructor, lines 47-71 *)

(* loadGlobalMap: loadPCDFile fills global_map_ or returns -1 *)
Ctor_LoadGlobalMap ==
  /\ ctor = "L47"
  /\ \E ok \in BOOLEAN :
       /\ mapLoaded' = ok
       /\ global_map_' = IF ok THEN MapPoints ELSE global_map_
       /\ logged' = IF ok THEN "info_loaded" ELSE "error_pcd"
  /\ ctor' = "L50"
  /\ UNCHANGED <<target_, target_tree_, pcd_sub_, register_timer_,
                 transform_timer_, queue, nextStamp, convSinceSend>>
  /\ UNCHANGED <<ingVars, regVars, pubVars>>

(* lines 50-59: downsample, covariances, KdTree of the target *)
Ctor_BuildTarget ==
  /\ ctor = "L50"
  /\ target_' = [built |-> TRUE, npts |-> VoxelGrid(global_map_), cov |-> TRUE]
  /\ target_tree_' = 1
  /\ ctor' = "L61"
  /\ logged' = "none"
  /\ UNCHANGED <<mapLoaded, global_map_, pcd_sub_, register_timer_,
                 transform_timer_, queue, nextStamp, convSinceSend>>
  /\ UNCHANGED <<ingVars, regVars, pubVars>>

(* lines 61-63 *)
Ctor_CreateSubscription ==
  /\ ctor = "L61"
  /\ pcd_sub_' = TRUE
  /\ ctor' = "L65"
  /\ logged' = "none"
  /\ UNCHANGED <<mapLoaded, global_map_, target_, target_tree_,
                 register_timer_, transform_timer_, queue, nextStamp,
                 convSinceSend>>
  /\ UNCHANGED <<ingVars, regVars, pubVars>>

(* lines 65-71 *)
Ctor_CreateTimers ==
  /\ ctor = "L65"
  /\ register_timer_' = TRUE
  /\ transform_timer_' = TRUE
  /\ ctor' = "done"
  /\ logged' = "none"
  /\ UNCHANGED <<mapLoaded, global_map_, target_, target_tree_, pcd_sub_,
                 queue, nextStamp, convSinceSend>>
  /\ UNCHANGED <<ingVars, regVars, pubVars>>

----------------------------------------------------------------------------
(* The executor.  The node is spun once it is constructed.  The three      *)
(* callbacks share the node's default callback group, which is mutually    *)
(* exclusive: a callback is started only while no other is running.        *)

(* a reentrant callback group: callbacks start whatever else is running *)
Reentrant(i, a, p) == TRUE

GroupCanRun(i, a, p) == i = "idle" /\ a = "idle" /\ p = "idle"

Spinning == ctor = "done"

(* A scan reaches the subscription's queue (KEEP_LAST, depth 10) *)
ScanArrives ==
  /\ pcd_sub_
  /\ nextStamp <= MaxScans
  /\ \E pts \in ScanShapes :
       LET m == [stamp |-> nextStamp, points |-> pts] IN
       queue' = IF Len(queue) = QueueDepth
                THEN Append(Tail(queue), m)
                ELSE Append(queue, m)
  /\ nextStamp' = nextStamp + 1
  /\ UNCHANGED <<ctorVars, ingVars, regVars, pubVars, logged, convSinceSend>>

----------------------------------------------------------------------------
(* registeredPcdCallback, lines 85-103 *)

(* the executor takes the oldest scan and calls the callback *)
Ingest_Take ==
  /\ Spinning
  /\ GroupCanRun(pcI, pcA, pcP)
  /\ pcI = "idle"
  /\ queue # << >>
  /\ msg' = Head(queue)
  /\ queue' = Tail(queue)
  /\ pcI' = "L88"
  /\ logged' = "none"
  /\ UNCHANGED <<last_scan_time_, registered_scan_, heap, source_,
                 source_tree_, nextStamp, convSinceSend>>
  /\ UNCHANGED <<ctorVars, regVars, pubVars>>

(* line 88 *)
Ingest_L88 ==
  /\ pcI = "L88"
  /\ last_scan_time_' = msg.stamp
  /\ pcI' = "L90"
  /\ UNCHANGED <<registered_scan_, heap, source_, source_tree_, msg, queue,
                 nextStamp, logged, convSinceSend>>
  /\ UNCHANGED <<ctorVars, regVars, pubVars>>

(* line 90 *)
Ingest_L90 ==
  /\ pcI = "L90"
  /\ registered_scan_' = msg.points
  /\ pcI' = "L93"
  /\ UNCHANGED <<last_scan_time_, heap, source_, source_tree_, msg, queue,
                 nextStamp, logged, convSinceSend>>
  /\ UNCHANGED <<ctorVars, regVars, pubVars>>

(* the downsampled scan assigned to target_ instead of source_ *)
Ingest_L93_WritesTarget ==
  /\ pcI = "L93"
  /\ target_' = [built |-> TRUE, npts |-> VoxelGrid(registered_scan_),
                 cov |-> FALSE]
  /\ pcI' = "L98"
  /\ UNCHANGED <<ctor, mapLoaded, global_map_, target_tree_, pcd_sub_,
                 register_timer_, transform_timer_>>
  /\ UNCHANGED <<last_scan_time_, registered_scan_, heap, source_,
                 source_tree_, msg, queue, nextStamp, logged, convSinceSend>>
  /\ UNCHANGED <<regVars, pubVars>>

(* a downsampling that returns null for a scan without points *)
Ingest_L93_NullOnEmpty ==
  /\ pcI = "L93"
  /\ IF VoxelGrid(registered_scan_) = 0
     THEN heap' = heap /\ source_' = 0
     ELSE /\ heap' = Append(heap, [stamp |-> msg.stamp,
                                   npts  |-> VoxelGrid(registered_scan_),
                                   cov   |-> FALSE])
          /\ source_' = Len(heap) + 1
  /\ pcI' = "L98"
  /\ UNCHANGED <<last_scan_time_, registered_scan_, source_tree_, msg, queue,
                 nextStamp, logged, convSinceSend>>
  /\ UNCHANGED <<ctorVars, regVars, pubVars>>

(* lines 93-95: a new cloud, without covariances yet, replaces source_ *)
Ingest_L93 ==
  /\ pcI = "L93"
  /\ heap' = Append(heap, [stamp |-> msg.stamp,
                           npts  |-> VoxelGrid(registered_scan_),
                           cov   |-> FALSE])
  /\ source_' = Len(heap) + 1
  /\ pcI' = "L98"
  /\ UNCHANGED <<last_scan_time_, registered_scan_, source_tree_, msg, queue,
                 nextStamp, logged, convSinceSend>>
  /\ UNCHANGED <<ctorVars, regVars, pubVars>>

(* line 98: covariances are written into the cloud source_ points to *)
Ingest_L98 ==
  /\ pcI = "L98"
  /\ heap' = [heap EXCEPT ![source_].cov = TRUE]
  /\ pcI' = "L101"
  /\ UNCHANGED <<last_scan_time_, registered_scan_, source_, source_tree_,
                 msg, queue, nextStamp, logged, convSinceSend>>
  /\ UNCHANGED <<ctorVars, regVars, pubVars>>

(* lines 101-102: a new KdTree holding source_ replaces source_tree_ *)
Ingest_L101 ==
  /\ pcI = "L101"
  /\ source_tree_' = source_
  /\ pcI' = "idle"
  /\ msg' = NoMsg
  /\ UNCHANGED <<last_scan_time_, registered_scan_, heap, source_, queue,
                 nextStamp, logged, convSinceSend>>
  /\ UNCHANGED <<ctorVars, regVars, pubVars>>

(* a cloud lives while source_ or the KdTree in source_tree_ holds it *)
Alive(id) == id # 0 /\ (source_ = id \/ source_tree_ = id)

----------------------------------------------------------------------------
(* performRegistration, lines 110-128 *)

(* what register_->align may return: the solver is small_gicp's *)
SolverResults == [converged : BOOLEAN, T_target_source : Poses]

(* a call that never takes the early return *)
NeverMissing(src, tree) == FALSE

(* line 112 *)
SourceMissing(src, tree) == src = 0 \/ tree = 0

(* a call that keeps whatever the solver returned *)
AcceptAll(r) == TRUE

(* line 122: the result is kept only if it converged *)
Accepted(r) == r.converged

(* an alignment seeded with the stored transform *)
WarmStart(T) == T

(* line 120: the initial guess handed to align, whatever result_T_ holds *)
InitialGuess(T) == IsometryMatrix(IdentityPose)

(* register_timer_ fires *)
Reg_Fire ==
  /\ Spinning
  /\ register_timer_
  /\ GroupCanRun(pcI, pcA, pcP)
  /\ pcA = "idle"
  /\ pcA' = "L112"
  /\ logged' = "none"
  /\ UNCHANGED <<result_T_, solverIn, result, outcome, solverInvoked,
                 everConverged, everFailed, convPose, convFrom, queue, nextStamp,
                 convSinceSend>>
  /\ UNCHANGED <<ctorVars, ingVars, pubVars>>

(* lines 112-114 *)
Reg_SkipNoSource ==
  /\ pcA = "L112"
  /\ SourceMissing(source_, source_tree_)
  /\ pcA' = "idle"
  /\ outcome' = "skipped"
  /\ UNCHANGED <<result_T_, solverIn, result, solverInvoked, everConverged,
                 everFailed,
                 convPose, convFrom, queue, nextStamp, logged, convSinceSend>>
  /\ UNCHANGED <<ctorVars, ingVars, pubVars>>

(* lines 116-120: align is called on *target_, *source_, *target_tree_ *)
Reg_Align ==
  /\ pcA = "L112"
  /\ ~SourceMissing(source_, source_tree_)
  /\ solverIn' = [target      |-> target_,
                  source      |-> source_,
                  view        |-> IF source_ \in 1..Len(heap)
                                  THEN heap[source_] ELSE NoSolverIn.view,
                  target_tree |-> target_tree_,
                  init_T      |-> InitialGuess(result_T_)]
  /\ solverInvoked' = TRUE
  /\ pcA' = "solving"
  /\ UNCHANGED <<result_T_, result, outcome, everConverged, everFailed,
                 convPose,
                 convFrom, queue, nextStamp, logged, convSinceSend>>
  /\ UNCHANGED <<ctorVars, ingVars, pubVars>>

(* a non-convergent call that also resets result_T_ *)
Reg_NotConvergedClears ==
  /\ pcA = "solving"
  /\ \E r \in SolverResults :
       /\ ~Accepted(r)
       /\ result' = r
       /\ everConverged' = (everConverged \/ r.converged)
       /\ everFailed' = (everFailed \/ ~r.converged)
  /\ result_T_' = ZeroMatrix
  /\ logged' = "warn_not_converged"
  /\ outcome' = "not_converged"
  /\ pcA' = "idle"
  /\ solverIn' = NoSolverIn
  /\ UNCHANGED <<solverInvoked, convPose, convFrom, queue, nextStamp,
                 convSinceSend>>
  /\ UNCHANGED <<ctorVars, ingVars, pubVars>>

(* a non-convergent call that also cancels the alignment timer *)
Reg_NotConvergedCancels ==
  /\ pcA = "solving"
  /\ \E r \in SolverResults :
       /\ ~Accepted(r)
       /\ result' = r
       /\ everConverged' = (everConverged \/ r.converged)
       /\ everFailed' = (everFailed \/ ~r.converged)
  /\ register_timer_' = FALSE
  /\ logged' = "warn_not_converged"
  /\ outcome' = "not_converged"
  /\ pcA' = "idle"
  /\ solverIn' = NoSolverIn
  /\ UNCHANGED <<result_T_, solverInvoked, convPose, convFrom, queue,
                 nextStamp, convSinceSend>>
  /\ UNCHANGED <<ctor, mapLoaded, global_map_, target_, target_tree_,
                 pcd_sub_, transform_timer_>>
  /\ UNCHANGED <<ingVars, pubVars>>

(* line 120 returns, lines 122-125 *)
Reg_NotConverged ==
  /\ pcA = "solving"
  /\ \E r \in SolverResults :
       /\ ~Accepted(r)
       /\ result' = r
       /\ everConverged' = (everConverged \/ r.converged)
       /\ everFailed' = (everFailed \/ ~r.converged)
  /\ logged' = "warn_not_converged"
  /\ outcome' = "not_converged"
  /\ pcA' = "idle"
  /\ solverIn' = NoSolverIn
  /\ UNCHANGED <<result_T_, solverInvoked, convPose, convFrom, queue,
                 nextStamp, convSinceSend>>
  /\ UNCHANGED <<ctorVars, ingVars, pubVars>>

(* line 120 returns, line 127 *)
Reg_Converged ==
  /\ pcA = "solving"
  /\ \E r \in SolverResults :
       /\ Accepted(r)
       /\ result' = r
       /\ result_T_' = CastMatrix(IsometryMatrix(r.T_target_source))
       /\ everConverged' = (everConverged \/ r.converged)
       /\ everFailed' = (everFailed \/ ~r.converged)
       /\ convPose' = IF r.converged THEN r.T_target_source ELSE convPose
       /\ convFrom' = IF r.converged THEN solverIn.view.stamp ELSE convFrom
       /\ convSinceSend' = (convSinceSend \/ r.converged)
  /\ outcome' = "converged"
  /\ pcA' = "idle"
  /\ solverIn' = NoSolverIn
  /\ UNCHANGED <<solverInvoked, queue, nextStamp, logged>>
  /\ UNCHANGED <<ctorVars, ingVars, pubVars>>

----------------------------------------------------------------------------
(* publishTransform, lines 135-158 *)

(* an absence test that also takes the identity for "no result yet" *)
AbsentOrIdentity(m) == IsZero(m) \/ m = IsometryMatrix(IdentityPose)

(* line 137 *)
Absent(m) == IsZero(m)

(* transform_timer_ fires *)
Pub_Fire ==
  /\ Spinning
  /\ transform_timer_
  /\ GroupCanRun(pcI, pcA, pcP)
  /\ pcP = "idle"
  /\ numSent < MaxSent
  /\ pcP' = "L137"
  /\ logged' = "none"
  /\ UNCHANGED <<ts, sent, numSent, published, sentPose, sentFrom, queue,
                 nextStamp, convSinceSend>>
  /\ UNCHANGED <<ctorVars, ingVars, regVars>>

(* lines 137-139 *)
Pub_SkipAbsent ==
  /\ pcP = "L137"
  /\ Absent(result_T_)
  /\ pcP' = "idle"
  /\ published' = "skipped"
  /\ UNCHANGED <<ts, sent, numSent, sentPose, sentFrom, queue, nextStamp,
                 logged, convSinceSend>>
  /\ UNCHANGED <<ctorVars, ingVars, regVars>>

(* lines 141-144 *)
Pub_Header ==
  /\ pcP = "L137"
  /\ ~Absent(result_T_)
  /\ ts' = [NoTs EXCEPT !.stamp = last_scan_time_,
                        !.frame_id = map_frame_id_,
                        !.child_frame_id = odom_frame_id_]
  /\ pcP' = "L146"
  /\ UNCHANGED <<sent, numSent, published, sentPose, sentFrom, queue,
                 nextStamp, logged, convSinceSend>>
  /\ UNCHANGED <<ctorVars, ingVars, regVars>>

(* lines 146, 149-151 *)
Pub_Translation ==
  /\ pcP = "L146"
  /\ ts' = [ts EXCEPT !.translation = TranslationBlock(result_T_)]
  /\ pcP' = "L147"
  /\ UNCHANGED <<sent, numSent, published, sentPose, sentFrom, queue,
                 nextStamp, logged, convSinceSend>>
  /\ UNCHANGED <<ctorVars, ingVars, regVars>>

(* lines 147, 152-155 *)
Pub_Rotation ==
  /\ pcP = "L147"
  /\ ts' = [ts EXCEPT !.rotation = QuaternionOf(RotationBlock(result_T_))]
  /\ pcP' = "L157"
  /\ UNCHANGED <<sent, numSent, published, sentPose, sentFrom, queue,
                 nextStamp, logged, convSinceSend>>
  /\ UNCHANGED <<ctorVars, ingVars, regVars>>

(* line 157 *)
Pub_Send ==
  /\ pcP = "L157"
  /\ sent' = ts
  /\ numSent' = numSent + 1
  /\ sentPose' = convPose
  /\ sentFrom' = convFrom
  /\ convSinceSend' = FALSE
  /\ ts' = NoTs
  /\ pcP' = "idle"
  /\ published' = "sent"
  /\ UNCHANGED <<queue, nextStamp, logged>>
  /\ UNCHANGED <<ctorVars, ingVars, regVars>>

----------------------------------------------------------------------------

Next ==
  \/ Ctor_LoadGlobalMap
  \/ Ctor_BuildTarget
  \/ Ctor_CreateSubscription
  \/ Ctor_CreateTimers
  \/ ScanArrives
  \/ Ingest_Take
  \/ Ingest_L88
  \/ Ingest_L90
  \/ Ingest_L93
  \/ Ingest_L98
  \/ Ingest_L101
  \/ Reg_Fire
  \/ Reg_SkipNoSource
  \/ Reg_Align
  \/ Reg_NotConverged
  \/ Reg_Converged
  \/ Pub_Fire
  \/ Pub_SkipAbsent
  \/ Pub_Header
  \/ Pub_Translation
  \/ Pub_Rotation
  \/ Pub_Send

Spec == Init /\ [][Next]_vars

----------------------------------------------------------------------------
(* What a call of publishTransform hands to the broadcaster when it reads  *)
(* matrix m and stamp t (NoTs: nothing), lines 135-158                     *)
MessageOf(m, t) ==
  IF Absent(m) THEN NoTs
  ELSE [stamp          |-> t,
        frame_id       |-> map_frame_id_,
        child_frame_id |-> odom_frame_id_,
        translation    |-> TranslationBlock(m),
        rotation       |-> QuaternionOf(RotationBlock(m))]

WouldPublish == MessageOf(result_T_, last_scan_time_)

(* The unit quaternion of each rotation of Poses *)
AxisQuaternion(axis) ==
  [w |-> IF axis = "I" THEN 1 ELSE 0,
   x |-> IF axis = "X" THEN 1 ELSE 0,
   y |-> IF axis = "Y" THEN 1 ELSE 0,
   z |-> IF axis = "Z" THEN 1 ELSE 0]

InPublishBody == pcP \in {"L146", "L147", "L157"}

----------------------------------------------------------------------------
(* C1: publishTransform emits nothing, and does not get past its absence   *)
(* test, until some earlier performRegistration obtained a converged       *)
(* result from the solver.                                                 *)
C1_NothingBeforeConvergence ==
  (numSent > 0 \/ published = "sent" \/ InPublishBody) => everConverged

(* a publish tick ran after a scan was ingested and an alignment did not   *)
(* converge, and emitted nothing                                           *)
C1_Witness ==
  /\ published = "skipped"
  /\ outcome = "not_converged"
  /\ source_ # 0
  /\ numSent = 0
  /\ ~everConverged

(* C2: every emitted message carries the stamp of the scan whose snapshot  *)
(* was aligned to produce the emitted transform.                           *)
C2_StampOfAlignedScan ==
  numSent > 0 => sent.stamp = sentFrom

(* C3: a performRegistration call whose solver result is not converged     *)
(* leaves result_T_ as it was, and with it what a publish tick emits.      *)
C3_NotConvergedKeepsResult ==
  [][ (pcA = "solving" /\ pcA' = "idle" /\ ~result'.converged)
        => /\ result_T_' = result_T_
           /\ MessageOf(result_T_', last_scan_time_') = WouldPublish ]_vars

(* a non-convergent call has ended after a transform was stored, the       *)
(* solver's rejected transform differs from the stored one, and a publish  *)
(* tick has sent the stored one                                            *)
C3_Witness ==
  /\ pcA = "idle"
  /\ outcome = "not_converged"
  /\ ~result.converged
  /\ everConverged
  /\ result.T_target_source # convPose
  /\ published = "sent"
  /\ ~convSinceSend
  /\ sent.translation = convPose.t

(* C4: if loading the reference map failed, the solver is never invoked    *)
(* and no transform message is ever published.                             *)
C4_FailedLoadDisablesPipeline ==
  (ctor = "done" /\ ~mapLoaded) => (~solverInvoked /\ numSent = 0)

(* C5: an alignment tick that finds no source installed returns without    *)
(* invoking the solver, without logging, and without changing the source   *)
(* snapshot or result_T_.                                                  *)
C5_SkipWithoutSource ==
  [][ (pcA = "L112" /\ pcA' # "L112" /\ (source_ = 0 \/ source_tree_ = 0))
        => /\ pcA' = "idle"
           /\ outcome' = "skipped"
           /\ solverInvoked' = solverInvoked
           /\ solverIn' = solverIn
           /\ logged' = "none"
           /\ UNCHANGED <<source_, source_tree_, heap, last_scan_time_,
                          result_T_>> ]_vars

(* an alignment tick was skipped before any scan was ingested, while a     *)
(* scan was already waiting in the subscription                            *)
C5_Witness ==
  /\ pcA = "idle"
  /\ outcome = "skipped"
  /\ source_ = 0
  /\ source_tree_ = 0
  /\ ~solverInvoked
  /\ queue # << >>

(* C6: once a converged result was stored, every publish tick passes the   *)
(* absence test and sends a message whose rotation and translation are     *)
(* those of the most recent converged alignment; two messages with no      *)
(* converged alignment between them carry the same rotation and            *)
(* translation.                                                            *)
C6_RepeatsLatestConverged ==
  [][ /\ (pcP = "L137" /\ pcP' # "L137" /\ everConverged) => pcP' = "L146"
      /\ (pcP = "L157" /\ pcP' = "idle")
           => /\ numSent' = numSent + 1
              /\ sent'.translation = convPose.t
              /\ sent'.rotation = AxisQuaternion(convPose.axis)
      /\ (pcP = "L157" /\ pcP' = "idle" /\ numSent > 0 /\ ~convSinceSend)
           => /\ sent'.translation = sent.translation
              /\ sent'.rotation = sent.rotation ]_vars

(* a rotated, translated transform was sent a second time after a later    *)
(* scan was ingested and a later alignment did not converge                *)
C6_Witness ==
  /\ numSent >= 2
  /\ published = "sent"
  /\ ~convSinceSend
  /\ sentPose.axis = "Z"
  /\ sent.rotation = AxisQuaternion("Z")
  /\ sent.translation = <<0, 2, 0>>
  /\ outcome = "not_converged"
  /\ Len(heap) >= 2

(* C7: ingesting a scan leaves result_T_ alone, and the complete message   *)
(* a publish tick emits is the same before and after every step of an      *)
(* ingestion.                                                              *)
C7_IngestionLeavesMessage ==
  [][ (pcI' # pcI)
        => /\ result_T_' = result_T_
           /\ MessageOf(result_T_', last_scan_time_') = WouldPublish ]_vars

(* C8: after any converged alignment, the identity included, the absence   *)
(* test of publishTransform is false and result_T_ holds the transform of  *)
(* the most recent converged alignment.                                    *)
C8_StoredNeverAbsent ==
  everConverged
    => (~Absent(result_T_)
        /\ result_T_ = CastMatrix(IsometryMatrix(convPose)))

(* the solver converged to the identity and the identity was sent *)
C8_Witness ==
  /\ everConverged
  /\ convPose = IdentityPose
  /\ result_T_ = IsometryMatrix(IdentityPose)
  /\ published = "sent"
  /\ sentPose = IdentityPose
  /\ sent.rotation = AxisQuaternion("I")
  /\ sent.translation = <<0, 0, 0>>

(* C9: wherever performRegistration can read the source (at its test and   *)
(* while the solver runs), source_, source_tree_ and last_scan_time_ come  *)
(* from the same ingestion and the cloud has its covariances.              *)
SnapshotConsistent ==
  \/ source_ = 0 /\ source_tree_ = 0 /\ last_scan_time_ = 0
  \/ /\ source_ \in 1..Len(heap)
     /\ heap[source_].cov
     /\ source_tree_ = source_
     /\ last_scan_time_ = heap[source_].stamp

C9_ReaderSeesOneIngestion ==
  pcA \in {"L112", "solving"} => SnapshotConsistent

(* the solver runs on the second snapshot while a third scan waits *)
C9_Witness ==
  /\ pcA = "solving"
  /\ source_ = 2
  /\ heap[1].npts # heap[2].npts
  /\ queue # << >>

(* C10: while the solver runs, the cloud it was handed is still the        *)
(* current source, is still held, and is unchanged; and a converged result *)
(* is stored while last_scan_time_ is the stamp of that cloud's scan.      *)
C10_AlignmentKeepsItsSnapshot ==
  /\ [](pcA = "solving"
          => /\ solverIn.source = source_
             /\ Alive(solverIn.source)
             /\ solverIn.source \in 1..Len(heap)
             /\ heap[solverIn.source] = solverIn.view
             /\ solverIn.view.cov)
  /\ [][ (pcA = "solving" /\ pcA' = "idle" /\ result'.converged)
           => /\ result_T_' = CastMatrix(IsometryMatrix(result'.T_target_source))
              /\ last_scan_time_' = solverIn.view.stamp
              /\ source_' = solverIn.source ]_vars

(* a converged result was stored for the second scan while the third scan  *)
(* waits in the subscription                                               *)
C10_Witness ==
  /\ pcA = "idle"
  /\ outcome = "converged"
  /\ convFrom = 2
  /\ source_ = 2
  /\ Len(heap) = 2
  /\ nextStamp > MaxScans
  /\ queue # << >>

(* C11: the rotation and the translation of every message, sent or being   *)
(* filled in, are those of one and the same pose the solver returned;      *)
(* result_T_ is not written between the reads of lines 137, 146 and 147.   *)
C11_MessageFromOneResult ==
  /\ []((numSent > 0)
          => \E p \in Poses : /\ sent.translation = p.t
                              /\ sent.rotation = AxisQuaternion(p.axis))
  /\ []((pcP = "L157")
          => \E p \in Poses : /\ ts.translation = p.t
                              /\ ts.rotation = AxisQuaternion(p.axis))
  /\ [][ (pcP # "idle" /\ pcP' # "idle") => result_T_' = result_T_ ]_vars

(* after a message with one pose was sent, a converged alignment stored    *)
(* another pose, and the running publish tick has read both the            *)
(* translation and the rotation of the new one                             *)
C11_Witness ==
  /\ numSent > 0
  /\ sentPose.axis = "X"
  /\ sent.translation = <<1, 0, 0>>
  /\ convSinceSend
  /\ convPose.axis = "Z"
  /\ pcP = "L157"
  /\ ts.translation = <<0, 2, 0>>
  /\ ts.rotation = AxisQuaternion("Z")

(* C12: target_ and target_tree_ are built before the subscription and the *)
(* timers exist, hence before any callback runs; once built they are never *)
(* written again, and the solver is handed exactly them.                   *)
C12_TargetBuiltOnceFirst ==
  /\ []((pcd_sub_ \/ register_timer_ \/ transform_timer_ \/ pcI # "idle"
           \/ pcA # "idle" \/ pcP # "idle" \/ solverInvoked)
          => (target_.built /\ target_.cov /\ target_tree_ = 1))
  /\ []((pcA = "solving")
          => (solverIn.target = target_ /\ solverIn.target_tree = target_tree_))
  /\ [][ target_.built
           => (target_' = target_ /\ target_tree_' = target_tree_
               /\ global_map_' = global_map_) ]_vars

(* the solver runs on the second scan against the target built from the    *)
(* loaded map, after a message was sent                                    *)
C12_Witness ==
  /\ pcA = "solving"
  /\ mapLoaded
  /\ solverIn.target = [built |-> TRUE, npts |-> 3, cov |-> TRUE]
  /\ solverIn.view.stamp = 2
  /\ numSent > 0

(* C13: result_T_ changes only in the step in which align returns a        *)
(* converged result, and once it holds a transform no step makes it        *)
(* Absent again.                                                           *)
C13_ResultMonotone ==
  [][ /\ (result_T_' # result_T_)
           => (pcA = "solving" /\ pcA' = "idle" /\ result'.converged
               /\ result_T_' = CastMatrix(IsometryMatrix(result'.T_target_source)))
      /\ (~IsZero(result_T_)) => ~IsZero(result_T_') ]_vars

(* a stored transform was replaced by that of a later scan, a message was  *)
(* sent in between, and a later alignment did not converge                 *)
C13_Witness ==
  /\ convFrom = 2
  /\ sentFrom = 1
  /\ numSent > 0
  /\ convPose # sentPose
  /\ result_T_ = IsometryMatrix(convPose)
  /\ outcome = "not_converged"
  /\ pcA = "idle"

(* C14: after a non-convergent alignment the subscription and both timers  *)
(* still exist and their callbacks can still be started; every later       *)
(* alignment tick calls the solver; a later converged result is stored,    *)
(* and the next publish tick passes the absence test and sends it.         *)
C14_FailureStaysLocal ==
  /\ [](everFailed => (pcd_sub_ /\ register_timer_ /\ transform_timer_))
  /\ []((everFailed /\ pcI = "idle" /\ pcA = "idle" /\ pcP = "idle")
          => /\ ENABLED Reg_Fire
             /\ (numSent < MaxSent) => ENABLED Pub_Fire
             /\ (queue # << >>) => ENABLED Ingest_Take)
  /\ [][ /\ (everFailed /\ pcA = "L112" /\ pcA' # "L112")
              => (pcA' = "solving" /\ solverInvoked')
         /\ (everFailed /\ pcA = "solving" /\ pcA' = "idle"
               /\ result'.converged)
              => (outcome' = "converged"
                  /\ result_T_' = IsometryMatrix(result'.T_target_source))
         /\ (everFailed /\ everConverged /\ pcP = "L137" /\ pcP' # "L137")
              => pcP' = "L146"
         /\ (everFailed /\ pcI = "L101" /\ pcI' = "idle")
              => (source_' = Len(heap) /\ source_tree_' = source_') ]_vars

(* an alignment did not converge; afterwards the alignment of scan 2      *)
(* converged (the last call to end) and its result was the first sent     *)
C14_Witness ==
  /\ everFailed
  /\ convFrom = 2
  /\ outcome = "converged"
  /\ published = "sent"
  /\ sentFrom = 2
  /\ sentPose = convPose
  /\ sent.translation = convPose.t
  /\ numSent = 1

(* C15: what align is handed is the fixed target and its tree, the current *)
(* source cloud and the identity as initial guess: the arguments are       *)
(* determined by the target and the source alone, whatever result_T_       *)
(* holds.                                                                  *)
C15_SeededWithIdentity ==
  (pcA = "solving")
    => /\ solverIn.init_T = IsometryMatrix(IdentityPose)
       /\ solverIn = [target      |-> target_,
                      source      |-> source_,
                      view        |-> heap[source_],
                      target_tree |-> target_tree_,
                      init_T      |-> IsometryMatrix(IdentityPose)]

(* the solver runs while result_T_ holds a stored transform that is not    *)
(* the identity                                                            *)
C15_Witness ==
  /\ pcA = "solving"
  /\ everConverged
  /\ convPose.axis = "Z"
  /\ result_T_ = IsometryMatrix(convPose)
  /\ solverIn.init_T # result_T_
  /\ solverIn.view.stamp = 2

(* C16: a call of performRegistration cannot block or loop, and ends in    *)
(* exactly one of: skipped (no source; nothing written or logged),         *)
(* converged (result_T_ replaced), not converged (warning, result_T_       *)
(* unchanged).  A call of publishTransform cannot block or loop, sends at  *)
(* most one message, and what it sends is what one read of result_T_ and   *)
(* last_scan_time_ gives.                                                  *)
C16_TicksTerminate ==
  /\ []((pcA # "idle")
          => ENABLED (Reg_SkipNoSource \/ Reg_Align \/ Reg_NotConverged
                        \/ Reg_Converged))
  /\ []((pcP # "idle")
          => ENABLED (Pub_SkipAbsent \/ Pub_Header \/ Pub_Translation
                        \/ Pub_Rotation \/ Pub_Send))
  /\ [][ /\ (pcA' # pcA)
              => <<pcA, pcA'>> \in {<<"idle", "L112">>, <<"L112", "idle">>,
                                    <<"L112", "solving">>, <<"solving", "idle">>}
         /\ (pcA # "idle" /\ pcA' = "idle")
              => \/ /\ outcome' = "skipped"
                    /\ pcA = "L112"
                    /\ (source_ = 0 \/ source_tree_ = 0)
                    /\ result_T_' = result_T_
                    /\ logged' = "none"
                 \/ /\ outcome' = "converged"
                    /\ pcA = "solving"
                    /\ result'.converged
                    /\ result_T_' = IsometryMatrix(result'.T_target_source)
                    /\ logged' = "none"
                 \/ /\ outcome' = "not_converged"
                    /\ pcA = "solving"
                    /\ ~result'.converged
                    /\ result_T_' = result_T_
                    /\ logged' = "warn_not_converged"
         /\ (pcP' # pcP)
              => <<pcP, pcP'>> \in {<<"idle", "L137">>, <<"L137", "idle">>,
                                    <<"L137", "L146">>, <<"L146", "L147">>,
                                    <<"L147", "L157">>, <<"L157", "idle">>}
         /\ (numSent' # numSent)
              => (numSent' = numSent + 1 /\ pcP = "L157" /\ pcP' = "idle")
         /\ (pcP = "L137" /\ pcP' = "idle")
              => (sent' = sent /\ published' = "skipped" /\ IsZero(result_T_))
         /\ (pcP = "L157" /\ pcP' = "idle")
              => (sent' = MessageOf(result_T_, last_scan_time_)
                  /\ published' = "sent") ]_vars

(* publish ticks were skipped, an alignment did not converge and a later   *)
(* one converged, with nothing sent yet                                    *)
C16_Witness ==
  /\ pcA = "idle"
  /\ pcP = "idle"
  /\ outcome = "converged"
  /\ everFailed
  /\ published = "skipped"
  /\ numSent = 0
  /\ ~IsZero(result_T_)

(* C17: whenever a message is sent, or publishTransform is past its        *)
(* absence test, a scan was ingested before: the stamp of the message is   *)
(* the stamp of a scan the sensor sent, never the default 0 of             *)
(* last_scan_time_.                                                        *)
C17_StampFromReceivedScan ==
  /\ (numSent > 0)
       => (sent.stamp \in 1..(nextStamp - 1)
           /\ \E i \in 1..Len(heap) : heap[i].stamp = sent.stamp)
  /\ InPublishBody
       => (ts.stamp \in 1..(nextStamp - 1) /\ last_scan_time_ # 0)

(* a message was sent with the stamp of scan 2 *)
C17_Witness ==
  /\ numSent > 0
  /\ published = "sent"
  /\ sent.stamp = 2
  /\ sent.frame_id = "map"
  /\ last_scan_time_ = 2

(* C18: once an ingestion has completed, source_ and source_tree_ stay     *)
(* non-null, whatever the later scans hold, and every later alignment tick *)
(* passes the test of line 112 and calls the solver; a scan without points *)
(* is installed, with its tree, like any other.                            *)
C18_SourceStaysInstalled ==
  /\ [](source_tree_ # 0 => source_ # 0)
  /\ [][ /\ (source_ # 0) => (source_' # 0)
         /\ (source_tree_ # 0) => (source_tree_' # 0)
         /\ (pcI = "L101" /\ pcI' = "idle")
              => (source_' # 0 /\ source_tree_' = source_'
                  /\ heap'[source_'].stamp = msg.stamp
                  /\ heap'[source_'].npts = VoxelGrid(msg.points))
         /\ (source_tree_ # 0 /\ pcA = "L112" /\ pcA' # "L112")
              => (pcA' = "solving" /\ solverIn'.source = source_) ]_vars

(* the solver was handed the cloud of a scan without points, ingested      *)
(* after a scan with points                                                *)
C18_Witness ==
  /\ pcA = "solving"
  /\ solverIn.source = 2
  /\ solverIn.view.npts = 0
  /\ heap[1].npts = 1
  /\ source_tree_ = 2

====
